---- MODULE Spec2Model ----
(***************************************************************************)
(* Model of glances/cpu_percent.py: the CpuPercent cache of CPU            *)
(* statistics shared between the CPU and Quicklook plugins.                *)
(*                                                                         *)
(* Time is counted in clock ticks.  Percentages are integers in hundredths *)
(* of a percent (7000 is 70.00 %), so that rounding to one decimal place   *)
(* is visible.  Strings that the code slices are sequences of characters.  *)
(***************************************************************************)
EXTENDS Integers, Sequences, FiniteSets, TLC

\* ---------------------------------------------------------------- bounds
TicksPerSecond == 2
MaxTime == 2
MaxInterval == 1
MaxCores == 2
MaxCalls == 3
NumThreads == 2
MaxThreadCalls == 1
MaxIdle == 10000

\* ------------------------------------------------------- program constants
\* self.cached_time = 1 (seconds)
HardcodedCachedTime == 1

Metrics == {"cpu", "percpu", "info"}

\* Values the constructor argument cached_time can take, in ticks: a
\* fraction of a second, shorter than the interval __init__ assigns.
Intervals == {MaxInterval}

\* ------------------------------------------------------------ glances.timer
\* Timer(duration) created at time t: a deadline t + duration.
TimerNew(t, duration) == t + duration

\* Timer.finished() at time t: the deadline is reached.
finished(target, t) == t >= target

\* ---------------------------------------------------------- python helpers
EmptyDict == [k \in {} |-> 0]

\* d[k] = v on a dict
DictSet(d, k, v) == [x \in (DOMAIN d) \cup {k} |-> IF x = k THEN v ELSE d[x]]

\* s[1:-2] on a string
Slice1Minus2(s) ==
    IF Len(s) <= 3 THEN <<>> ELSE SubSeq(s, 2, Len(s) - 2)

\* s.split(':') on a string: the pieces between the colons
RECURSIVE SplitFrom(_, _, _)
SplitFrom(s, i, cur) ==
    IF i > Len(s) THEN <<cur>>
    ELSE IF s[i] = ":" THEN <<cur>> \o SplitFrom(s, i + 1, <<>>)
    ELSE SplitFrom(s, i + 1, Append(cur, s[i]))

SplitColon(s) == SplitFrom(s, 1, <<>>)

\* Cutting the second decimal off instead of rounding.
Trunc1(h) == (h \div 10) * 10

\* round(x, 1) on a value in hundredths: the nearest multiple of 10,
\* a tie going to the even tenth.
Round1(h) ==
    LET q == h \div 10
        r == h % 10
    IN  IF r < 5 THEN q * 10
        ELSE IF r > 5 THEN (q + 1) * 10
        ELSE IF q % 2 = 0 THEN q * 10 ELSE (q + 1) * 10

\* --------------------------------------------------- the OS provider (psutil)
\* psutil.cpu_percent(interval=0.0): a value, or an exception.
AggregateValues == {1250, 4000}
AggregateOutcomes ==
    {[ok |-> FALSE, value |-> 0]} \cup {[ok |-> TRUE, value |-> v] : v \in AggregateValues}

\* One record of psutil.cpu_times_percent(percpu=True).  Which optional
\* attributes a record has depends on the platform.
OptionalFields == {"nice", "iowait", "irq", "softirq", "steal", "guest", "guest_nice"}

\* The record of core i (from 0) in a batch of the given variant: variant 1
\* is a platform whose records have none of the optional attributes (but
\* two attributes of its own), variant 2 one whose records have all of
\* them but guest_nice.
CpuTimes(variant, i) ==
    IF variant = 1
    THEN [idle |-> 7000 - i, user |-> 2000 + i, system |-> 1000,
          interrupt |-> 3, dpc |-> 4]
    ELSE [idle |-> 9985 - 10 * i, user |-> 10 * i + 5, system |-> 8,
          nice |-> 1, iowait |-> 2, irq |-> 3, softirq |-> 4, steal |-> 5, guest |-> 6]

Variants == {1, 2}

\* psutil.cpu_times_percent(interval=0.0, percpu=True): a list of records,
\* one per core (possibly none), or an exception.
PercpuOutcomes ==
    {[ok |-> FALSE, value |-> <<>>]}
        \cup {[ok |-> TRUE, value |-> [i \in 1..n |-> CpuTimes(v, i - 1)]] :
                n \in 0..MaxCores, v \in Variants}

\* psutil.cpu_freq(): a record with current and max, or a failure (an
\* exception, or None whose attribute access raises).
FreqOutcomes ==
    { [ok |-> FALSE, current |-> 0, max |-> 0],
      [ok |-> TRUE, current |-> 800, max |-> 3000],
      [ok |-> TRUE, current |-> 1200, max |-> 3000] }

\* /proc/cpuinfo: absent or unreadable, or a sequence of lines.
NameLine == <<"n", ":", " ", "i", "7", "x", "\n">>
CpuinfoFiles ==
    { [exists |-> FALSE, lines |-> <<>>],
      [exists |-> TRUE, lines |-> <<<<"a">>>>],
      [exists |-> TRUE, lines |-> <<<<"a">>, <<"b">>, <<"c">>, <<"d">>, <<"n", "\n">>>>],
      [exists |-> TRUE, lines |-> <<<<"a">>, <<"b">>, <<"c">>, <<"d">>, NameLine>>] }

\* open('/proc/cpuinfo', 'r').readlines()[4].split(':')[1][1:-2]
\* ok is FALSE when the expression raises.
ReadCpuName(file) ==
    IF ~file.exists THEN [ok |-> FALSE, name |-> <<>>]
    ELSE IF Len(file.lines) < 5 THEN [ok |-> FALSE, name |-> <<>>]
    ELSE LET parts == SplitColon(file.lines[5])
         IN  IF Len(parts) < 2 THEN [ok |-> FALSE, name |-> <<>>]
             ELSE [ok |-> TRUE, name |-> Slice1Minus2(parts[2])]

\* The literal 'CPU'
PlaceholderName == <<"C", "P", "U">>

\* The CPU name that /proc/cpuinfo holds: the text of its fifth line after
\* the colon, without the blank in front and the newline at the end; the
\* placeholder when the file does not give one.
NameInFile(file) ==
    IF ~ReadCpuName(file).ok THEN PlaceholderName
    ELSE LET v == SplitColon(file.lines[5])[2]
             a == IF Len(v) > 0 /\ v[1] = " " THEN 2 ELSE 1
             b == IF Len(v) > 0 /\ v[Len(v)] = "\n" THEN Len(v) - 1 ELSE Len(v)
         IN  SubSeq(v, a, b)

\* ------------------------------------------------------------------- state
VARIABLES
    now,              \* the clock, in ticks
    cached_time_arg,  \* the argument cached_time of the constructor, in ticks
    cached_time,      \* self.cached_time, in ticks
    cpu_info,         \* self.cpu_info
    cpu_percent,      \* self.cpu_percent
    percpu_percent,   \* self.percpu_percent
    timer_cpu_info,   \* self.timer_cpu_info (its deadline)
    timer_cpu,        \* self.timer_cpu
    timer_percpu,     \* self.timer_percpu
    last,             \* the accessor call just made, if any since the last tick
    called,           \* the accessors called so far
    lastRefresh,      \* per metric: time of its last successful refresh, or -1
    refreshResult,    \* per metric: what its last timer-resetting refresh returned
    heap,             \* list objects: the contents of each per-core list ever created
    percpu_ref,       \* list objects: the one self.percpu_percent is bound to
    returned,         \* list objects: each list handed to a caller, with its contents then
    sampled,          \* per metric: what the provider handed to its last successful refresh
    failedLast,       \* the metrics whose most recent call raised
    ncalled,          \* the number of accessor calls made so far
    thr,              \* concurrent callers: each thread's position and locals
    samples,          \* concurrent callers: the complete list of each sample taken
    idleIn,           \* one core's dict alone: the idle value of the provider's record
    entryOut          \* one core's dict alone: the dict built from that record

vars == <<now, cached_time_arg, cached_time, cpu_info, cpu_percent, percpu_percent,
          timer_cpu_info, timer_cpu, timer_percpu,
          last, called, lastRefresh, refreshResult, sampled, heap, percpu_ref, returned,
                failedLast, ncalled, thr, samples,
          idleIn, entryOut>>

Threads == 1..NumThreads

\* A thread outside any call.
IdleThread ==
    [pc |-> "idle", op |-> "none", records |-> <<>>, i |-> 0, cpu |-> EmptyDict,
     ret |-> <<>>, outcome |-> "none", due |-> FALSE, sampledAt |-> -1, calls |-> 0]

NoCall ==
    [op |-> "none", due |-> FALSE, first |-> FALSE, afterFailure |-> FALSE,
     outcome |-> "none", result |-> 0, ncalls |-> 0, failed |-> FALSE,
     reset |-> FALSE, prevRefresh |-> -1, nameFailed |-> FALSE, provided |-> 0]

\* No successful refresh of the metric yet.
NoSample == [none |-> TRUE]

\* CpuPercent.__init__(cached_time) at time 0
InitCache ==
    /\ now = 0
    /\ cached_time_arg \in Intervals
    /\ cached_time = HardcodedCachedTime * TicksPerSecond
    /\ cpu_info = EmptyDict
    /\ cpu_percent = 0
    /\ percpu_percent = <<>>
    /\ timer_cpu_info = TimerNew(0, 0)
    /\ timer_cpu = TimerNew(0, 0)
    /\ timer_percpu = TimerNew(0, 0)
    /\ last = NoCall
    /\ called = {}
    /\ lastRefresh = [m \in Metrics |-> -1]
    /\ refreshResult = [m \in Metrics |-> 0]
    /\ sampled = [m \in Metrics |-> NoSample]
    /\ heap = << <<>> >>
    /\ percpu_ref = 1
    /\ returned = {}
    /\ failedLast = {}
    /\ ncalled = 0
    /\ thr = [t \in Threads |-> IdleThread]
    /\ samples = {}

Init ==
    /\ InitCache
    /\ idleIn = 0
    /\ entryOut = EmptyDict

\* Bookkeeping of one accessor call of metric m: was its timer due, did it
\* return ("ok") or raise ("error"), what it returned, how many provider
\* functions it invoked, whether one of them raised, whether the call
\* re-armed the timer, whether the CPU-name source failed, and what the
\* provider handed to a successful refresh (0 otherwise).
Bookkeeping(m, due, outcome, result, ncalls, failed, reset, nameFailed, provided) ==
    /\ ncalled < MaxCalls
    /\ ncalled' = ncalled + 1
    /\ UNCHANGED <<thr, samples, idleIn, entryOut>>
    /\ last' = [op |-> m, due |-> due, first |-> m \notin called,
                afterFailure |-> m \in failedLast,
                outcome |-> outcome, result |-> result, ncalls |-> ncalls,
                failed |-> failed, reset |-> reset,
                prevRefresh |-> lastRefresh[m], nameFailed |-> nameFailed,
                provided |-> provided]
    /\ called' = called \cup {m}
    /\ lastRefresh' = IF due /\ outcome = "ok"
                      THEN [lastRefresh EXCEPT ![m] = now] ELSE lastRefresh
    /\ refreshResult' = IF reset /\ outcome = "ok"
                        THEN [refreshResult EXCEPT ![m] = result] ELSE refreshResult
    /\ sampled' = IF due /\ outcome = "ok"
                  THEN [sampled EXCEPT ![m] = [value |-> provided]] ELSE sampled
    /\ failedLast' = IF outcome = "error" THEN failedLast \cup {m} ELSE failedLast \ {m}

\* The bookkeeping of a call that creates no list object.
Observe(m, due, outcome, result, ncalls, failed, reset, nameFailed, provided) ==
    /\ Bookkeeping(m, due, outcome, result, ncalls, failed, reset, nameFailed, provided)
    /\ UNCHANGED <<heap, percpu_ref, returned>>

\* __get_cpu without the timer test: every call samples.
GetCpuNoGate ==
    /\ UNCHANGED <<now, cached_time_arg, cached_time, cpu_info, percpu_percent,
                   timer_cpu_info, timer_percpu>>
    /\ \E p \in AggregateOutcomes :
         IF p.ok
         THEN /\ cpu_percent' = p.value
              /\ timer_cpu' = TimerNew(now, cached_time)
              /\ Observe("cpu", finished(timer_cpu, now), "ok", p.value, 1, FALSE, TRUE, FALSE,
                         p.value)
         ELSE /\ UNCHANGED <<cpu_percent, timer_cpu>>
              /\ Observe("cpu", finished(timer_cpu, now), "error", 0, 1, TRUE, FALSE, FALSE, 0)

\* __get_cpu re-arming the timer before it samples.
GetCpuResetFirst ==
    /\ UNCHANGED <<now, cached_time_arg, cached_time, cpu_info, percpu_percent,
                   timer_cpu_info, timer_percpu>>
    /\ IF finished(timer_cpu, now)
       THEN \E p \in AggregateOutcomes :
              /\ timer_cpu' = TimerNew(now, cached_time)
              /\ IF p.ok
                 THEN /\ cpu_percent' = p.value
                      /\ Observe("cpu", TRUE, "ok", p.value, 1, FALSE, TRUE, FALSE, p.value)
                 ELSE /\ UNCHANGED cpu_percent
                      /\ Observe("cpu", TRUE, "error", 0, 1, TRUE, TRUE, FALSE, 0)
       ELSE /\ UNCHANGED <<cpu_percent, timer_cpu>>
            /\ Observe("cpu", FALSE, "ok", cpu_percent, 0, FALSE, FALSE, FALSE, 0)

\* __get_cpu catching the provider's exception and returning the old value.
GetCpuSwallow ==
    /\ UNCHANGED <<now, cached_time_arg, cached_time, cpu_info, percpu_percent,
                   timer_cpu_info, timer_percpu>>
    /\ IF finished(timer_cpu, now)
       THEN \E p \in AggregateOutcomes :
              IF p.ok
              THEN /\ cpu_percent' = p.value
                   /\ timer_cpu' = TimerNew(now, cached_time)
                   /\ Observe("cpu", TRUE, "ok", p.value, 1, FALSE, TRUE, FALSE, p.value)
              ELSE /\ UNCHANGED <<cpu_percent, timer_cpu>>
                   /\ Observe("cpu", TRUE, "ok", cpu_percent, 1, TRUE, FALSE, FALSE, 0)
       ELSE /\ UNCHANGED <<cpu_percent, timer_cpu>>
            /\ Observe("cpu", FALSE, "ok", cpu_percent, 0, FALSE, FALSE, FALSE, 0)

\* __get_cpu re-arming the timer of the per-core metric as well, as if the
\* two metrics shared one timer.
GetCpuSharedTimer ==
    /\ UNCHANGED <<now, cached_time_arg, cached_time, cpu_info, percpu_percent,
                   timer_cpu_info>>
    /\ IF finished(timer_cpu, now)
       THEN \E p \in AggregateOutcomes :
              IF p.ok
              THEN /\ cpu_percent' = p.value
                   /\ timer_cpu' = TimerNew(now, cached_time)
                   /\ timer_percpu' = TimerNew(now, cached_time)
                   /\ Observe("cpu", TRUE, "ok", p.value, 1, FALSE, TRUE, FALSE, p.value)
              ELSE /\ UNCHANGED <<cpu_percent, timer_cpu, timer_percpu>>
                   /\ Observe("cpu", TRUE, "error", 0, 1, TRUE, FALSE, FALSE, 0)
       ELSE /\ UNCHANGED <<cpu_percent, timer_cpu, timer_percpu>>
            /\ Observe("cpu", FALSE, "ok", cpu_percent, 0, FALSE, FALSE, FALSE, 0)

\* CpuPercent.__get_cpu, reached by get(percpu=False)
GetCpu ==
    /\ UNCHANGED <<now, cached_time_arg, cached_time, cpu_info, percpu_percent,
                   timer_cpu_info, timer_percpu>>
    /\ IF finished(timer_cpu, now)
       THEN \E p \in AggregateOutcomes :
              IF p.ok
              THEN /\ cpu_percent' = p.value
                   /\ timer_cpu' = TimerNew(now, cached_time)
                   /\ Observe("cpu", TRUE, "ok", p.value, 1, FALSE, TRUE, FALSE, p.value)
              ELSE /\ UNCHANGED <<cpu_percent, timer_cpu>>
                   /\ Observe("cpu", TRUE, "error", 0, 1, TRUE, FALSE, FALSE, 0)
       ELSE /\ UNCHANGED <<cpu_percent, timer_cpu>>
            /\ Observe("cpu", FALSE, "ok", cpu_percent, 0, FALSE, FALSE, FALSE, 0)

\* CpuPercent.get_key
get_key == "cpu_number"

\* The loop body copying nice without the hasattr test (0 when the record
\* has no such attribute).
CpuEntryAlwaysNice(cpu_number, cputimes) ==
    [k \in {"key", "cpu_number", "total", "user", "system", "idle", "nice"}
            \cup (OptionalFields \cap DOMAIN cputimes) |->
        CASE k = "key" -> get_key
          [] k = "cpu_number" -> cpu_number
          [] k = "total" -> Round1(10000 - cputimes.idle)
          [] k = "nice" /\ k \notin DOMAIN cputimes -> 0
          [] OTHER -> cputimes[k]]

\* The dict built for one core by the body of the loop of __get_percpu.
CpuEntry(cpu_number, cputimes) ==
    [k \in {"key", "cpu_number", "total", "user", "system", "idle"}
            \cup (OptionalFields \cap DOMAIN cputimes) |->
        CASE k = "key" -> get_key
          [] k = "cpu_number" -> cpu_number
          [] k = "total" -> Round1(10000 - cputimes.idle)
          [] OTHER -> cputimes[k]]

\* The for loop of __get_percpu from record i on: each iteration appends
\* the core's dict to the list and then re-arms the timer.
RECURSIVE PercpuLoop(_, _, _, _, _, _)
PercpuLoop(records, i, list, timer, t, duration) ==
    IF i > Len(records) THEN [list |-> list, timer |-> timer]
    ELSE PercpuLoop(records, i + 1, Append(list, CpuEntry(i - 1, records[i])),
                    TimerNew(t, duration), t, duration)

\* __get_percpu without self.percpu_percent = []: the loop appends to the
\* list of the previous refresh.
GetPercpuNoClear ==
    /\ UNCHANGED <<now, cached_time_arg, cached_time, cpu_info, cpu_percent,
                   timer_cpu_info, timer_cpu>>
    /\ IF finished(timer_percpu, now)
       THEN \E p \in PercpuOutcomes :
              IF p.ok
              THEN LET r == PercpuLoop(p.value, 1, percpu_percent, timer_percpu, now,
                                       cached_time)
                   IN  /\ percpu_percent' = r.list
                       /\ timer_percpu' = r.timer
                       /\ Observe("percpu", TRUE, "ok", r.list, 1, FALSE,
                                  Len(p.value) > 0, FALSE, p.value)
              ELSE /\ UNCHANGED <<percpu_percent, timer_percpu>>
                   /\ Observe("percpu", TRUE, "error", 0, 1, TRUE, FALSE, FALSE, 0)
       ELSE /\ UNCHANGED <<percpu_percent, timer_percpu>>
            /\ Observe("percpu", FALSE, "ok", percpu_percent, 0, FALSE, FALSE, FALSE, 0)

\* __get_percpu re-arming the timer before it asks the provider: a failed
\* refresh leaves the emptied list to the calls of the next interval.
GetPercpuResetFirst ==
    /\ UNCHANGED <<now, cached_time_arg, cached_time, cpu_info, cpu_percent,
                   timer_cpu_info, timer_cpu>>
    /\ IF finished(timer_percpu, now)
       THEN \E p \in PercpuOutcomes :
              IF p.ok
              THEN LET r == PercpuLoop(p.value, 1, <<>>, timer_percpu, now, cached_time)
                   IN  /\ percpu_percent' = r.list
                       /\ timer_percpu' = TimerNew(now, cached_time)
                       /\ Observe("percpu", TRUE, "ok", r.list, 1, FALSE,
                                  TRUE, FALSE, p.value)
              ELSE /\ percpu_percent' = <<>>
                   /\ timer_percpu' = TimerNew(now, cached_time)
                   /\ Observe("percpu", TRUE, "error", 0, 1, TRUE, TRUE, FALSE, 0)
       ELSE /\ UNCHANGED <<percpu_percent, timer_percpu>>
            /\ Observe("percpu", FALSE, "ok", percpu_percent, 0, FALSE, FALSE, FALSE, 0)

\* CpuPercent.__get_percpu, reached by get(percpu=True)
GetPercpu ==
    /\ UNCHANGED <<now, cached_time_arg, cached_time, cpu_info, cpu_percent,
                   timer_cpu_info, timer_cpu>>
    /\ IF finished(timer_percpu, now)
       THEN \E p \in PercpuOutcomes :
              IF p.ok
              THEN LET r == PercpuLoop(p.value, 1, <<>>, timer_percpu, now, cached_time)
                   IN  /\ percpu_percent' = r.list
                       /\ timer_percpu' = r.timer
                       /\ Observe("percpu", TRUE, "ok", r.list, 1, FALSE,
                                  Len(p.value) > 0, FALSE, p.value)
              ELSE /\ percpu_percent' = <<>>
                   /\ UNCHANGED timer_percpu
                   /\ Observe("percpu", TRUE, "error", 0, 1, TRUE, FALSE, FALSE, 0)
       ELSE /\ UNCHANGED <<percpu_percent, timer_percpu>>
            /\ Observe("percpu", FALSE, "ok", percpu_percent, 0, FALSE, FALSE, FALSE, 0)

\* get_info: the value stored under 'cpu_name' by the try / except
NameNoFallback(nm) == nm.name

CpuNameValue(nm) == IF nm.ok THEN nm.name ELSE PlaceholderName

\* CpuPercent.get_info
GetInfo ==
    /\ UNCHANGED <<now, cached_time_arg, cached_time, cpu_percent, percpu_percent,
                   timer_cpu, timer_percpu>>
    /\ IF finished(timer_cpu_info, now)
       THEN \E file \in CpuinfoFiles, f1 \in FreqOutcomes :
              LET nm == ReadCpuName(file)
                  d1 == DictSet(cpu_info, "cpu_name", CpuNameValue(nm))
                  d2 == DictSet(d1, "cpu_hz_current", f1.current)
              IN  IF ~f1.ok
                  THEN /\ cpu_info' = d1
                       /\ UNCHANGED timer_cpu_info
                       /\ Observe("info", TRUE, "error", 0, 1, TRUE, FALSE, ~nm.ok, 0)
                  ELSE \E f2 \in FreqOutcomes :
                         IF ~f2.ok
                         THEN /\ cpu_info' = d2
                              /\ UNCHANGED timer_cpu_info
                              /\ Observe("info", TRUE, "error", 0, 2, TRUE, FALSE, ~nm.ok, 0)
                         ELSE LET d3 == DictSet(d2, "cpu_hz", f2.max)
                              IN  /\ cpu_info' = d3
                                  /\ timer_cpu_info' = TimerNew(now, cached_time)
                                  /\ Observe("info", TRUE, "ok", d3, 2, FALSE, TRUE, ~nm.ok,
                                             [name |-> NameInFile(file), current |-> f1.current,
                                              max |-> f2.max])
       ELSE /\ UNCHANGED <<cpu_info, timer_cpu_info>>
            /\ Observe("info", FALSE, "ok", cpu_info, 0, FALSE, FALSE, FALSE, 0)

\* Time passes.
Tick ==
    /\ now < MaxTime
    /\ now' = now + 1
    /\ last' = NoCall
    /\ UNCHANGED <<cached_time_arg, cached_time, cpu_info, cpu_percent, percpu_percent,
                   timer_cpu_info, timer_cpu, timer_percpu,
                   called, lastRefresh, refreshResult, sampled, heap, percpu_ref, returned,
                failedLast, ncalled, thr, samples,
                   idleIn, entryOut>>

Next ==
    \/ GetCpu
    \/ GetPercpu
    \/ GetInfo
    \/ Tick

Spec == Init /\ [][Next]_vars
\* ------------------------------------------------------------ list objects
\* __get_percpu with the identity of the lists: self.percpu_percent = []
\* binds the attribute to a new list object, append changes the object the
\* attribute is bound to, and return hands that object to the caller.

\* __get_percpu emptying the stored list in place (del self.percpu_percent[:])
\* instead of binding a new one.
GetPercpuInPlace ==
    /\ UNCHANGED <<now, cached_time_arg, cached_time, cpu_info, cpu_percent,
                   timer_cpu_info, timer_cpu, percpu_ref>>
    /\ IF finished(timer_percpu, now)
       THEN \E p \in PercpuOutcomes :
              IF p.ok
              THEN LET r == PercpuLoop(p.value, 1, <<>>, timer_percpu, now, cached_time)
                   IN  /\ heap' = [heap EXCEPT ![percpu_ref] = r.list]
                       /\ percpu_percent' = r.list
                       /\ timer_percpu' = r.timer
                       /\ returned' = returned \cup {[ref |-> percpu_ref, content |-> r.list]}
                       /\ Bookkeeping("percpu", TRUE, "ok", r.list, 1, FALSE,
                                      Len(p.value) > 0, FALSE, p.value)
              ELSE /\ heap' = [heap EXCEPT ![percpu_ref] = <<>>]
                   /\ percpu_percent' = <<>>
                   /\ UNCHANGED <<timer_percpu, returned>>
                   /\ Bookkeeping("percpu", TRUE, "error", 0, 1, TRUE, FALSE, FALSE, 0)
       ELSE /\ returned' = returned \cup {[ref |-> percpu_ref, content |-> heap[percpu_ref]]}
            /\ UNCHANGED <<heap, percpu_percent, timer_percpu>>
            /\ Bookkeeping("percpu", FALSE, "ok", percpu_percent, 0, FALSE, FALSE, FALSE, 0)

\* CpuPercent.__get_percpu, reached by get(percpu=True)
GetPercpuObj ==
    /\ UNCHANGED <<now, cached_time_arg, cached_time, cpu_info, cpu_percent,
                   timer_cpu_info, timer_cpu>>
    /\ IF finished(timer_percpu, now)
       THEN \E p \in PercpuOutcomes :
              LET new == Len(heap) + 1
              IN  IF p.ok
                  THEN LET r == PercpuLoop(p.value, 1, <<>>, timer_percpu, now, cached_time)
                       IN  /\ heap' = Append(heap, r.list)
                           /\ percpu_ref' = new
                           /\ percpu_percent' = r.list
                           /\ timer_percpu' = r.timer
                           /\ returned' = returned \cup {[ref |-> new, content |-> r.list]}
                           /\ Bookkeeping("percpu", TRUE, "ok", r.list, 1, FALSE,
                                          Len(p.value) > 0, FALSE, p.value)
                  ELSE /\ heap' = Append(heap, <<>>)
                       /\ percpu_ref' = new
                       /\ percpu_percent' = <<>>
                       /\ UNCHANGED <<timer_percpu, returned>>
                       /\ Bookkeeping("percpu", TRUE, "error", 0, 1, TRUE, FALSE, FALSE, 0)
       ELSE /\ returned' = returned \cup {[ref |-> percpu_ref, content |-> heap[percpu_ref]]}
            /\ UNCHANGED <<heap, percpu_ref, percpu_percent, timer_percpu>>
            /\ Bookkeeping("percpu", FALSE, "ok", percpu_percent, 0, FALSE, FALSE, FALSE, 0)

\* The calls of get: get_info has no statement that names percpu_percent.
NextHeap ==
    \/ GetCpu
    \/ GetPercpuObj
    \/ Tick

SpecHeap == Init /\ [][NextHeap]_vars
\* ------------------------------------------------------- concurrent callers
\* Threads of the plugins call get(percpu=True) and get(percpu=False) on the
\* shared instance cpu_percent.  Nothing in __get_percpu or __get_cpu takes
\* a lock, so the threads interleave between their statements.

\* What the concurrent steps leave alone.
otherUnchanged ==
    UNCHANGED <<now, cached_time_arg, cached_time, cpu_info, timer_cpu_info,
                last, called, lastRefresh, refreshResult, sampled, heap, percpu_ref, returned,
                failedLast, ncalled,
                idleIn, entryOut>>

\* What the steps of __get_percpu leave alone.
seqUnchanged ==
    /\ otherUnchanged
    /\ UNCHANGED <<cpu_percent, timer_cpu>>

\* What the steps of __get_cpu leave alone.
cpuUnchanged ==
    /\ otherUnchanged
    /\ UNCHANGED <<percpu_percent, timer_percpu, samples>>

\* The list a whole run of the loop builds from the provider's records.
FullList(records) == [i \in 1..Len(records) |-> CpuEntry(i - 1, records[i])]

\* if self.timer_percpu.finished():
T_Check(t) ==
    /\ thr[t].pc = "idle"
    /\ thr[t].calls < MaxThreadCalls
    /\ thr' = [thr EXCEPT ![t] =
                 [IdleThread EXCEPT !.calls = thr[t].calls + 1,
                                    !.op = "percpu",
                                    !.due = finished(timer_percpu, now),
                                    !.pc = IF finished(timer_percpu, now)
                                           THEN "clear" ELSE "return"]]
    /\ UNCHANGED <<percpu_percent, timer_percpu, samples>>
    /\ seqUnchanged

\* self.percpu_percent = []
T_Clear(t) ==
    /\ thr[t].pc = "clear"
    /\ percpu_percent' = <<>>
    /\ thr' = [thr EXCEPT ![t].pc = "sample"]
    /\ UNCHANGED <<timer_percpu, samples>>
    /\ seqUnchanged

\* psutil.cpu_times_percent(interval=0.0, percpu=True): the records, or an
\* exception that ends the call.
T_Sample(t) ==
    /\ thr[t].pc = "sample"
    /\ \E p \in PercpuOutcomes :
         IF p.ok
         THEN /\ thr' = [thr EXCEPT ![t].pc = "for", ![t].records = p.value, ![t].i = 1,
                                      ![t].sampledAt = now]
              /\ samples' = samples \cup {FullList(p.value)}
         ELSE /\ thr' = [thr EXCEPT ![t].pc = "idle", ![t].outcome = "error"]
              /\ UNCHANGED samples
    /\ UNCHANGED <<percpu_percent, timer_percpu>>
    /\ seqUnchanged

\* for cpu_number, cputimes in enumerate(...): cpu = {...}, or the loop ends
T_For(t) ==
    /\ thr[t].pc = "for"
    /\ IF thr[t].i > Len(thr[t].records)
       THEN thr' = [thr EXCEPT ![t].pc = "return", ![t].records = <<>>, ![t].i = 0,
                               ![t].cpu = EmptyDict]
       ELSE thr' = [thr EXCEPT ![t].pc = "append",
                               ![t].cpu = CpuEntry(thr[t].i - 1, thr[t].records[thr[t].i])]
    /\ UNCHANGED <<percpu_percent, timer_percpu, samples>>
    /\ seqUnchanged

\* self.percpu_percent.append(cpu)
T_Append(t) ==
    /\ thr[t].pc = "append"
    /\ percpu_percent' = Append(percpu_percent, thr[t].cpu)
    /\ thr' = [thr EXCEPT ![t].pc = "reset"]
    /\ UNCHANGED <<timer_percpu, samples>>
    /\ seqUnchanged

\* self.timer_percpu = Timer(self.cached_time)
T_Reset(t) ==
    /\ thr[t].pc = "reset"
    /\ timer_percpu' = TimerNew(now, cached_time)
    /\ thr' = [thr EXCEPT ![t].pc = "for", ![t].i = thr[t].i + 1]
    /\ UNCHANGED <<percpu_percent, samples>>
    /\ seqUnchanged

\* return self.percpu_percent
T_Return(t) ==
    /\ thr[t].pc = "return"
    /\ thr' = [thr EXCEPT ![t].pc = "idle", ![t].outcome = "ok",
                          ![t].ret = percpu_percent]
    /\ UNCHANGED <<percpu_percent, timer_percpu, samples>>
    /\ seqUnchanged

\* __get_cpu: if self.timer_cpu.finished():
T_CpuCheck(t) ==
    /\ thr[t].pc = "idle"
    /\ thr[t].calls < MaxThreadCalls
    /\ thr' = [thr EXCEPT ![t] =
                 [IdleThread EXCEPT !.calls = thr[t].calls + 1,
                                    !.op = "cpu",
                                    !.ret = 0,
                                    !.due = finished(timer_cpu, now),
                                    !.pc = IF finished(timer_cpu, now)
                                           THEN "cpu_sample" ELSE "cpu_return"]]
    /\ UNCHANGED <<cpu_percent, timer_cpu>>
    /\ cpuUnchanged

\* self.cpu_percent = psutil.cpu_percent(interval=0.0), or an exception
\* that ends the call.
T_CpuSample(t) ==
    /\ thr[t].pc = "cpu_sample"
    /\ \E p \in AggregateOutcomes :
         IF p.ok
         THEN /\ cpu_percent' = p.value
              /\ thr' = [thr EXCEPT ![t].pc = "cpu_reset", ![t].sampledAt = now]
         ELSE /\ UNCHANGED cpu_percent
              /\ thr' = [thr EXCEPT ![t].pc = "idle", ![t].outcome = "error"]
    /\ UNCHANGED timer_cpu
    /\ cpuUnchanged

\* self.timer_cpu = Timer(self.cached_time)
T_CpuReset(t) ==
    /\ thr[t].pc = "cpu_reset"
    /\ timer_cpu' = TimerNew(now, cached_time)
    /\ thr' = [thr EXCEPT ![t].pc = "cpu_return"]
    /\ UNCHANGED cpu_percent
    /\ cpuUnchanged

\* return self.cpu_percent
T_CpuReturn(t) ==
    /\ thr[t].pc = "cpu_return"
    /\ thr' = [thr EXCEPT ![t].pc = "idle", ![t].outcome = "ok",
                          ![t].ret = cpu_percent]
    /\ UNCHANGED <<cpu_percent, timer_cpu>>
    /\ cpuUnchanged

NextConc ==
    \/ \E t \in Threads : T_CpuCheck(t)
    \/ \E t \in Threads : T_CpuSample(t)
    \/ \E t \in Threads : T_CpuReset(t)
    \/ \E t \in Threads : T_CpuReturn(t)
    \/ \E t \in Threads : T_Check(t)
    \/ \E t \in Threads : T_Clear(t)
    \/ \E t \in Threads : T_Sample(t)
    \/ \E t \in Threads : T_For(t)
    \/ \E t \in Threads : T_Append(t)
    \/ \E t \in Threads : T_Reset(t)
    \/ \E t \in Threads : T_Return(t)
    \/ Tick

SpecConc == Init /\ [][NextConc]_vars
\* ------------------------------------------------- one core's dict alone
\* The body of the loop of __get_percpu applied to one record, for every
\* idle value from 0.00 to 100.00.
IdleValues == 0..MaxIdle

InitRound ==
    /\ InitCache
    /\ idleIn \in IdleValues
    /\ entryOut = EmptyDict

BuildEntry ==
    /\ entryOut = EmptyDict
    /\ entryOut' = CpuEntry(0, [idle |-> idleIn, user |-> 0, system |-> 0])
    /\ UNCHANGED <<now, cached_time_arg, cached_time, cpu_info, cpu_percent,
                   percpu_percent, timer_cpu_info, timer_cpu, timer_percpu,
                   last, called, lastRefresh, refreshResult, sampled, heap, percpu_ref, returned,
                failedLast, ncalled,
                   thr, samples, idleIn>>

NextRound == BuildEntry

SpecRound == InitRound /\ [][NextRound]_vars

\* ------------------------------------------------------------------ claims
\* The timer and the stored value of a metric.
TimerOf(m) ==
    CASE m = "cpu" -> timer_cpu
      [] m = "percpu" -> timer_percpu
      [] OTHER -> timer_cpu_info

StoredOf(m) ==
    CASE m = "cpu" -> cpu_percent
      [] m = "percpu" -> percpu_percent
      [] OTHER -> cpu_info

\* C1: for each metric, two successful samplings of it are at least one
\* cache interval (the constructor's argument) apart, whatever the provider
\* returned.
C1_SamplingsOneIntervalApart ==
    \A m \in Metrics :
        (last.op = m /\ last.due /\ last.outcome = "ok" /\ last.prevRefresh >= 0)
            => now - last.prevRefresh >= cached_time_arg

C3_TimerUsesConstructorInterval ==
    \A m \in Metrics :
        (last.op = m /\ last.due /\ last.outcome = "ok")
            => TimerOf(m) = now + cached_time_arg

\* C4: the first call to each accessor finds its timer due and invokes
\* exactly one provider function.
C4_ColdStartOneInvocation ==
    \A m \in Metrics :
        (last.op = m /\ last.first) => (last.due /\ last.ncalls = 1)

\* C5: once the cache interval has elapsed since the last successful
\* refresh of a metric, the next call to its accessor is not a cache hit:
\* it invokes the provider exactly once and returns the new value.
C5_RefreshAfterInterval ==
    \A m \in Metrics :
        (last.op = m /\ last.prevRefresh >= 0
                     /\ now - last.prevRefresh >= cached_time_arg)
            => /\ last.due
               /\ last.ncalls = 1
               /\ (last.outcome = "ok" => last.result = StoredOf(m))

\* C6: a refresh whose provider call fails does not reset the metric's
\* timer; the timer stays due, and the next call to the same accessor
\* invokes the provider again.
C6_FailureKeepsTimerDue ==
    /\ [](\A m \in failedLast : finished(TimerOf(m), now))
    /\ [][\A m \in Metrics :
            (now' = now /\ last'.op = m /\ last'.outcome = "error")
                => (TimerOf(m))' = TimerOf(m)]_vars
    /\ [][\A m \in Metrics :
            (now' = now /\ last'.op = m /\ m \in failedLast)
                => (last'.due /\ last'.ncalls >= 1)]_vars

C6_Witness ==
    /\ last.op = "percpu" /\ last.afterFailure
    /\ last.due /\ last.ncalls >= 1 /\ last.prevRefresh >= 0

\* C7: a refresh whose provider call fails leaves the metric's stored
\* value as it was before the call.
C7_FailureKeepsStoredValue ==
    [][\A m \in Metrics :
          (now' = now /\ last'.op = m /\ last'.outcome = "error")
              => (StoredOf(m))' = StoredOf(m)]_vars

\* C8: when a provider function fails during a refresh, the call reports
\* an error to its caller and returns no value.
C8_ProviderFailureIsReported ==
    (last.op \in Metrics /\ last.failed) => last.outcome = "error"

C8_Witness ==
    /\ last.op = "info" /\ last.failed /\ last.ncalls = 2
    /\ last.outcome = "error"

\* C9: when the CPU-name source fails during a get_info refresh, cpu_name
\* is the literal 'CPU', the frequency is still queried, the name failure
\* raises nothing, and with the frequency queried the timer is re-armed
\* and the mapping returned.
C9_NameFailureIsRecovered ==
    (last.op = "info" /\ last.due /\ last.nameFailed)
        => /\ "cpu_name" \in DOMAIN cpu_info
           /\ cpu_info["cpu_name"] = PlaceholderName
           /\ last.ncalls >= 1
           /\ (last.outcome = "error" <=> last.failed)
           /\ (~last.failed => /\ last.reset
                               /\ timer_cpu_info = TimerNew(now, cached_time)
                               /\ ~finished(timer_cpu_info, now)
                               /\ last.result = cpu_info)

C9_Witness ==
    /\ last.op = "info" /\ last.due /\ last.nameFailed
    /\ last.outcome = "ok" /\ last.result["cpu_name"] = PlaceholderName

\* C10: with concurrent callers of get(percpu=True), every list a call
\* returns is the complete result of one provider sample.
C10_ReturnedListIsComplete ==
    \A t \in Threads :
        (thr[t].op = "percpu" /\ thr[t].outcome = "ok") => thr[t].ret \in samples

\* C11: when concurrent callers of one accessor find its timer due, the
\* provider is sampled once for the interval: two threads never both
\* sample the same metric less than one interval apart.
C11_OneSamplePerInterval ==
    \A t1 \in Threads : \A t2 \in Threads \ {t1} :
        (thr[t1].op = "cpu" /\ thr[t2].op = "cpu"
            /\ thr[t1].sampledAt >= 0 /\ thr[t2].sampledAt >= thr[t1].sampledAt)
        => thr[t2].sampledAt - thr[t1].sampledAt >= cached_time
\* C12: a call to one accessor, whether a hit, a successful refresh or a
\* failed one, leaves the stored values and the timers of the other two
\* metrics unchanged.
C12_MetricsAreIndependent ==
    [][\A m \in Metrics :
          (now' = now /\ last'.op = m)
              => \A o \in Metrics \ {m} :
                    /\ (StoredOf(o))' = StoredOf(o)
                    /\ (TimerOf(o))' = TimerOf(o)]_vars

C12_Witness ==
    /\ last.op = "cpu" /\ last.due /\ last.outcome = "ok"
    /\ Len(percpu_percent) = 2 /\ finished(timer_percpu, now)
    /\ ~finished(timer_cpu, now)
\* C13: after a successful per-core refresh the list has one entry per
\* provider record, in the provider's order, the entry at position i
\* (from 0) has cpu_number i, and nothing of the previous list is in it.
C13_OneEntryPerRecordInOrder ==
    (last.op = "percpu" /\ last.due /\ last.outcome = "ok")
        => /\ Len(last.result) = Len(last.provided)
           /\ percpu_percent = last.result
           /\ \A i \in 1..Len(last.result) :
                 /\ last.result[i]["cpu_number"] = i - 1
                 /\ last.result[i]["idle"] = last.provided[i].idle
                 /\ last.result[i]["user"] = last.provided[i].user
                 /\ last.result[i]["system"] = last.provided[i].system

C13_Witness ==
    /\ last.op = "percpu" /\ last.due /\ last.outcome = "ok"
    /\ last.prevRefresh >= 0
    /\ Len(last.result) = 2
    /\ last.result[2]["cpu_number"] = 1
\* C14: each of nice, iowait, irq, softirq, steal, guest and guest_nice is
\* in a per-core entry exactly when the provider's record of that core has
\* the attribute, and then with the provider's value; user, system and
\* idle are always there.
C14_OptionalFieldsFollowProvider ==
    (last.op = "percpu" /\ last.due /\ last.outcome = "ok")
        => \A i \in 1..Len(last.result) :
             /\ i <= Len(last.provided)
             /\ {"user", "system", "idle"} \subseteq DOMAIN last.result[i]
             /\ \A f \in OptionalFields :
                   /\ (f \in DOMAIN last.result[i]) <=> (f \in DOMAIN last.provided[i])
                   /\ (f \in DOMAIN last.result[i])
                         => last.result[i][f] = last.provided[i][f]

C14_Witness ==
    /\ last.op = "percpu" /\ last.due /\ last.outcome = "ok"
    /\ Len(last.result) = 2
    /\ "guest" \in DOMAIN last.result[2]
    /\ "guest_nice" \notin DOMAIN last.result[2]
    /\ last.result[2]["steal"] = 5
\* C15: in every per-core entry total is 100 - idle rounded to one decimal
\* place (a multiple of 0.1 at most 0.05 away from 100 - idle), and
\* total + idle is within 0.1 of 100.
C15_TotalIsRoundedBusy ==
    ("total" \in DOMAIN entryOut)
        => LET total == entryOut["total"]
               busy == 10000 - idleIn
               Abs(x) == IF x < 0 THEN 0 - x ELSE x
           IN  /\ entryOut["idle"] = idleIn
               /\ total % 10 = 0
               /\ 2 * Abs(total - busy) <= 10
               /\ Abs(total + entryOut["idle"] - 10000) <= 10

C15_Witness ==
    /\ idleIn = 9985
    /\ "total" \in DOMAIN entryOut
    /\ entryOut["total"] = 20
\* C16: after every successful get_info call the mapping has the keys
\* cpu_name, cpu_hz_current and cpu_hz_max, holding the CPU name, the
\* provider's current frequency and the provider's maximum frequency.
C16_InfoKeysAndValues ==
    (last.op = "info" /\ last.outcome = "ok")
        => /\ {"cpu_name", "cpu_hz_current", "cpu_hz_max"} \subseteq DOMAIN last.result
           /\ last.due => /\ last.result["cpu_name"] = last.provided.name
                          /\ last.result["cpu_hz_current"] = last.provided.current
                          /\ last.result["cpu_hz_max"] = last.provided.max
\* C17: for each metric the stored value is not modified after the metric's
\* timer was last reset, and the timer is reset only right after a
\* successful provider sample of that metric: a call that changes the stored
\* value is a successful refresh that re-arms the timer, and a call that
\* re-arms the timer is a successful refresh (never a hit or a failure).
C17_ValueNotYoungerThanTimer ==
    [][\A m \in Metrics :
          /\ (StoredOf(m)' # StoredOf(m))
                => (last'.op = m /\ last'.due /\ last'.reset /\ last'.outcome = "ok")
          /\ (TimerOf(m)' # TimerOf(m))
                => (last'.op = m /\ last'.due /\ last'.outcome = "ok")]_vars
\* C18: every refresh that completes without error leaves the metric's timer
\* not due, whatever the provider returned, zero per-core records included.
C18_RefreshRearmsTimer ==
    (last.op \in Metrics /\ last.due /\ last.outcome = "ok")
        => ~finished(TimerOf(last.op), now)
\* s is a prefix of t
IsPrefix(s, t) == Len(s) <= Len(t) /\ s = SubSeq(t, 1, Len(s))

\* The value of metric m that corresponds to the provider output raw: the
\* aggregate itself, one dict per record in order, or a mapping whose
\* frequencies are the provider's and whose name comes from the file read.
IsValueOf(m, v, raw) ==
    CASE m = "cpu" -> v = raw
      [] m = "percpu" -> v = FullList(raw)
      [] OTHER -> /\ DOMAIN v = {"cpu_name", "cpu_hz_current", "cpu_hz"}
                  /\ IsPrefix(v["cpu_name"], raw.name)
                  /\ v["cpu_hz_current"] = raw.current
                  /\ v["cpu_hz"] = raw.max

\* C19: in sequential use every value an accessor returns is the value of
\* the most recent successful provider sample of that metric: never the
\* constructor's placeholder, never what a failed refresh left behind.
C19_ReturnsLatestSample ==
    (last.op \in Metrics /\ last.outcome = "ok")
        => /\ sampled[last.op] # NoSample
           /\ IsValueOf(last.op, last.result, sampled[last.op].value)

\* A per-core refresh that succeeds after a failed one, which had emptied
\* the list of an earlier successful refresh.
C19_Witness ==
    /\ last.op = "percpu"
    /\ last.afterFailure
    /\ last.outcome = "ok"
    /\ last.prevRefresh >= 0
    /\ Len(last.result) = 2
\* C20: in sequential use a per-core list that get(percpu=True) has returned
\* is never changed by a later accessor call: every list object handed to a
\* caller still has the contents it had when it was returned.
C20_ReturnedListsAreFrozen ==
    \A r \in returned : heap[r.ref] = r.content

\* A second refresh has bound a new list while the caller of the first
\* still holds the two entries it was given.
C20_Witness ==
    /\ \E r \in returned : r.ref # percpu_ref /\ Len(r.content) = 2
    /\ last.op = "percpu" /\ last.due /\ last.outcome = "ok"
    /\ percpu_ref \in {r.ref : r \in returned}
====
